---- MODULE Spec2Model ----
(***************************************************************************)
(* Model of src/routes/voting.py: the in-memory ballot store of the        *)
(* voting blueprint (votes_storage, voted_ips) and its request handlers    *)
(* submit_vote, get_votes, check_voted and get_analytics, run by a pool of *)
(* request threads.  The handlers take no lock, so every read and write of *)
(* the two module-level objects is a step of its own: a thread may be      *)
(* pre-empted between any two of them.                                     *)
(***************************************************************************)
EXTENDS Integers, FiniteSets, Sequences, TLC

\* Number of request threads that serve handlers at the same time.
NumThreads == 2

Threads == 1..NumThreads

\* votes_storage is created with the keys 1..6 (voting.py:54-61).
NumVideos == 6

VideoKeys == 1..NumVideos

\* required_platforms, in the order of the list (voting.py:78).
required_platforms == <<"instagram", "linkedin", "twitter">>

Platforms == {required_platforms[i] : i \in 1..Len(required_platforms)}

(***************************************************************************)
(* JSON values a request body can carry as video_id: null (also what       *)
(* data.get returns for an absent key), an integer, or a list.             *)
(***************************************************************************)
JNull == [tag |-> "null", n |-> 0]

JInt(n) == [tag |-> "int", n |-> n]

JList == [tag |-> "list", n |-> 1]

\* 1 and 2 are keys of votes_storage, 99 is none.
VideoIdInputs == {JNull, JInt(1), JInt(2), JInt(99), JList}

\* The test of line 74 left out: every video_id passes.
TruthyAlways(v) == TRUE

\* Python truth value of a video_id: None and 0 are falsy, a non-empty list is truthy.
Truthy(v) == \/ v.tag = "int" /\ v.n # 0
             \/ v.tag = "list"

\* A list is unhashable: `video_id not in votes_storage` raises TypeError.
Hashable(v) == v.tag # "list"

\* `video_id in votes_storage` for a hashable video_id.
Registered(v) == v.tag = "int" /\ v.n \in VideoKeys

(***************************************************************************)
(* social_follows: each required platform is sent true, sent false, or not *)
(* sent at all (social_follows.get(platform, False) then yields False).    *)
(***************************************************************************)
FollowValues == {"true", "false", "absent"}

AllFollows == [Platforms -> FollowValues]

AllTrue == [p \in Platforms |-> "true"]

\* The default of data.get('social_follows', {}) (voting.py:72).
NoFollows == [p \in Platforms |-> "absent"]

\* A social_follows that is no JSON object (null, a list, a string): it has no .get,
\* and line 80 raises AttributeError.
NotAnObject == [p \in Platforms |-> "none"]

IsObject(sf) == sf # NotAnObject

\* social_follows.get(platform, False) is truthy
Follows(sf, p) == sf[p] = "true"

\* The loop without its early return: the last unmet platform wins.
LastUnmet(sf) ==
    IF \E i \in 1..Len(required_platforms) : ~Follows(sf, required_platforms[i])
    THEN CHOOSE i \in 1..Len(required_platforms) :
            /\ ~Follows(sf, required_platforms[i])
            /\ \A j \in (i+1)..Len(required_platforms) : Follows(sf, required_platforms[j])
    ELSE 0

\* Index of the first platform of required_platforms whose flag is not truthy, 0 if none.
FirstUnmet(sf) ==
    IF \E i \in 1..Len(required_platforms) : ~Follows(sf, required_platforms[i])
    THEN CHOOSE i \in 1..Len(required_platforms) :
            /\ ~Follows(sf, required_platforms[i])
            /\ \A j \in 1..(i-1) : Follows(sf, required_platforms[j])
    ELSE 0

(***************************************************************************)
(* Client identity.  NoHeader stands for an absent X-Forwarded-For header. *)
(***************************************************************************)
NoHeader == "none"

RemoteAddrs == {"10.0.0.1", "10.0.0.2"}

ForwardedFor == {NoHeader, "10.0.0.2"}

\* The (REMOTE_ADDR, X-Forwarded-For) pairs requests arrive with: two direct
\* clients, and the first client naming the second one's address in the header.
ClientInputs == {<<"10.0.0.1", NoHeader>>, <<"10.0.0.2", NoHeader>>,
                 <<"10.0.0.1", "10.0.0.2">>}

\* get_client_ip (voting.py:42-47)
get_client_ip(remote_addr, xff) == IF xff = NoHeader THEN remote_addr ELSE xff

\* hash_ip (voting.py:49-51): a deterministic, injective digest of the address.
hash_ip(ip) == <<"sha256", ip>>

NoHash == <<"sha256", "">>

\* Error strings of the responses; arg is the platform a message names.
Err(msg) == [msg |-> msg, arg |-> ""]

NoError == Err("")

ErrVideoRequired == Err("Video ID is required")

ErrMustFollow(p) == [msg |-> "Must follow on", arg |-> p]

ErrAlreadyVoted == Err("You have already voted")

ErrInvalidVideo == Err("Invalid video ID")

\* str(e) of the AttributeError of line 80 (voting.py:107-108).
ErrNoGet == Err("object has no attribute 'get'")

\* str(e) of the TypeError a list raises as a dict key (voting.py:107-108).
ErrUnhashable == Err("unhashable type: 'list'")

VARIABLES
    votes_storage,   \* voting.py:54  video id -> counter
    voted_ips,       \* voting.py:63  set of hashed addresses
    pc,              \* position of each request thread in its handler
    loc,             \* local variables of the handler each thread runs
    resp,            \* the response a handler has returned and the server is sending
    accepted,        \* per video: number of submit_vote calls that returned success
    succ_by_ip,      \* per identity: number of submit_vote calls that returned success
    succ_by_addr,    \* per REMOTE_ADDR: number of submit_vote calls that returned success
    sink             \* the vote records handed to save_vote_to_sheets

vars == <<votes_storage, voted_ips, pc, loc, resp, accepted, succ_by_ip, succ_by_addr, sink>>

(***************************************************************************)
(* Pure helpers.                                                           *)
(***************************************************************************)
RECURSIVE SumTo(_, _)
SumTo(f, n) == IF n = 0 THEN 0 ELSE f[n] + SumTo(f, n - 1)

\* sum(votes_storage.values())
SumValues(f) == SumTo(f, NumVideos)

\* round(x, 1) of the quotient num/den, in tenths: to nearest, ties to even.
RoundTenths(num, den) ==
    LET q == (10 * num) \div den
        r == (10 * num) % den
    IN  IF 2 * r > den THEN q + 1
        ELSE IF 2 * r < den THEN q
        ELSE IF q % 2 = 0 THEN q ELSE q + 1

\* voting.py:198-199, in tenths of a percent point.
Percentage(count, total_votes) ==
    IF total_votes > 0 THEN RoundTenths(count * 100, total_votes) ELSE 0

(***************************************************************************)
(* Locals of a handler and the response it returns.                        *)
(***************************************************************************)
NoLoc == [video_id |-> JNull, social_follows |-> NoFollows,
          remote_addr |-> NoHeader, xff |-> NoHeader, ip_hash |-> NoHash,
          voted_at_entry |-> FALSE, count |-> 0, stored_over |-> 0, writes |-> 0,
          total_votes |-> 0, vote_percentages |-> <<>>]

NoVotes == [k \in VideoKeys |-> 0]

NoResp == [op |-> "none", status |-> 0, error |-> NoError, new_vote_count |-> 0,
           votes |-> NoVotes, total_votes |-> 0, has_voted |-> FALSE,
           vote_percentages |-> <<>>, total_participants |-> 0, videos_count |-> 0,
           frame |-> NoLoc]

\* Every error answered as a server error.
ErrorRespServerError(op, status, error, frame) ==
    [NoResp EXCEPT !.op = op, !.status = 500, !.error = error, !.frame = frame]

\* jsonify({'error': ...}), status
ErrorResp(op, status, error, frame) ==
    [NoResp EXCEPT !.op = op, !.status = status, !.error = error, !.frame = frame]

Init ==
    /\ votes_storage = [k \in VideoKeys |-> 0]
    /\ voted_ips = {}
    /\ pc = [t \in Threads |-> "idle"]
    /\ loc = [t \in Threads |-> NoLoc]
    /\ resp = [t \in Threads |-> NoResp]
    /\ accepted = [k \in VideoKeys |-> 0]
    /\ succ_by_ip = [h \in {hash_ip(a) : a \in RemoteAddrs \cup (ForwardedFor \ {NoHeader})} |-> 0]
    /\ succ_by_addr = [a \in RemoteAddrs |-> 0]
    /\ sink = <<>>

\* The handler of thread t returns r.
Return(t, r) ==
    /\ resp' = [resp EXCEPT ![t] = r]
    /\ pc' = [pc EXCEPT ![t] = "ret"]
    /\ loc' = [loc EXCEPT ![t] = NoLoc]

\* The response is sent: the thread is free for the next request.
send_response(t) ==
    /\ pc[t] = "ret"
    /\ resp' = [resp EXCEPT ![t] = NoResp]
    /\ pc' = [pc EXCEPT ![t] = "idle"]
    /\ UNCHANGED <<votes_storage, voted_ips, loc, accepted, succ_by_ip, succ_by_addr, sink>>

(***************************************************************************)
(* submit_vote (voting.py:67-108)                                          *)
(***************************************************************************)
\* Lines 70-85: parse the body, check video_id and the platform flags, hash the address.
submit_vote_validate(t, video_id, social_follows, remote_addr, xff) ==
    /\ pc[t] = "idle"
    /\ LET body == [NoLoc EXCEPT !.video_id = video_id, !.social_follows = social_follows]
       IN  IF ~Truthy(video_id)
           THEN Return(t, ErrorResp("submit_vote", 400, ErrVideoRequired, body))
           ELSE IF ~IsObject(social_follows)
           THEN Return(t, ErrorResp("submit_vote", 500, ErrNoGet, body))
           ELSE IF FirstUnmet(social_follows) # 0
           THEN Return(t, ErrorResp("submit_vote", 400,
                    ErrMustFollow(required_platforms[FirstUnmet(social_follows)]), body))
           ELSE /\ loc' = [loc EXCEPT ![t] = [body EXCEPT
                            !.remote_addr = remote_addr,
                            !.xff = xff,
                            !.ip_hash = hash_ip(get_client_ip(remote_addr, xff)),
                            !.voted_at_entry =
                                hash_ip(get_client_ip(remote_addr, xff)) \in voted_ips]]
                /\ pc' = [pc EXCEPT ![t] = "L88"]
                /\ resp' = resp
    /\ UNCHANGED <<votes_storage, voted_ips, accepted, succ_by_ip, succ_by_addr, sink>>

\* The membership test inverted.
IpHasVotedInverted(ip_hash, ips) == ip_hash \notin ips

\* The membership test left out.
IpHasVotedNever(ip_hash, ips) == FALSE

\* Lines 88-89: the membership test on voted_ips.
IpHasVoted(ip_hash, ips) == ip_hash \in ips

submit_vote_check(t) ==
    /\ pc[t] = "L88"
    /\ IF IpHasVoted(loc[t].ip_hash, voted_ips)
       THEN Return(t, ErrorResp("submit_vote", 400, ErrAlreadyVoted, loc[t]))
       ELSE /\ pc' = [pc EXCEPT ![t] = "L92"]
            /\ UNCHANGED <<loc, resp>>
    /\ UNCHANGED <<votes_storage, voted_ips, accepted, succ_by_ip, succ_by_addr, sink>>

\* Lines 92-95: the key test, then the load half of `votes_storage[video_id] += 1`.
\* The key set of votes_storage never changes, so the test and the load are one step.
submit_vote_load(t) ==
    /\ pc[t] = "L92"
    /\ IF ~Hashable(loc[t].video_id)
       THEN Return(t, ErrorResp("submit_vote", 500, ErrUnhashable, loc[t]))
       ELSE IF ~Registered(loc[t].video_id)
       THEN Return(t, ErrorResp("submit_vote", 400, ErrInvalidVideo, loc[t]))
       ELSE /\ loc' = [loc EXCEPT ![t].count = votes_storage[loc[t].video_id.n]]
            /\ pc' = [pc EXCEPT ![t] = "L95"]
            /\ resp' = resp
    /\ UNCHANGED <<votes_storage, voted_ips, accepted, succ_by_ip, succ_by_addr, sink>>

\* The increment with its sign wrong.
Decremented(count) == count - 1

\* Line 95: the value `votes_storage[video_id] += 1` stores, from the value it loaded.
Incremented(count) == count + 1

\* Line 95, the store half.  stored_over records the counter the store overwrote.
submit_vote_store(t) ==
    /\ pc[t] = "L95"
    /\ votes_storage' = [votes_storage EXCEPT
                            ![loc[t].video_id.n] = Incremented(loc[t].count)]
    /\ loc' = [loc EXCEPT ![t].stored_over = votes_storage[loc[t].video_id.n],
                          ![t].writes = @ + 1]
    /\ pc' = [pc EXCEPT ![t] = "L96"]
    /\ UNCHANGED <<voted_ips, resp, accepted, succ_by_ip, succ_by_addr, sink>>

\* The insertion forgotten: the call goes on without recording the voter.
submit_vote_add_skipped(t) ==
    /\ pc[t] = "L96"
    /\ loc' = [loc EXCEPT ![t].writes = @ + 1]
    /\ pc' = [pc EXCEPT ![t] = "L101"]
    /\ UNCHANGED <<votes_storage, voted_ips, resp, accepted, succ_by_ip, succ_by_addr, sink>>

\* Line 96: voted_ips.add(ip_hash)
submit_vote_add(t) ==
    /\ pc[t] = "L96"
    /\ voted_ips' = voted_ips \cup {loc[t].ip_hash}
    /\ loc' = [loc EXCEPT ![t].writes = @ + 1]
    /\ pc' = [pc EXCEPT ![t] = "L101"]
    /\ UNCHANGED <<votes_storage, resp, accepted, succ_by_ip, succ_by_addr, sink>>

(***************************************************************************)
(* The record sink (voting.py:22-40, 162-186).                             *)
(***************************************************************************)
\* get_google_sheets_client: None unless gspread is importable and the credentials
\* file exists; an exception while authorising also yields None.
get_google_sheets_client(gspread_available, credentials_ok) ==
    IF gspread_available /\ credentials_ok THEN "client" ELSE "none"

\* save_vote_to_sheets: without a client the record is printed to the console; with
\* one nothing is appended (lines 176-183 are comments); it never raises.
save_vote_to_sheets(client, record) ==
    [console |-> IF client = "none" THEN <<record>> ELSE <<>>, rows |-> <<>>]

\* The call of line 99 in force.
SavedVoteRecordsEnabled(video_id, ip_hash, social_follows) ==
    <<[video_id |-> video_id, ip_hash |-> ip_hash, social_follows |-> social_follows]>>

\* Lines 98-99: the records a successful vote hands to save_vote_to_sheets.  The
\* call is commented out, so there are none.
SavedVoteRecords(video_id, ip_hash, social_follows) == <<>>

\* Lines 101-105: the success response reads the counter again.
submit_vote_return(t) ==
    /\ pc[t] = "L101"
    /\ Return(t, [NoResp EXCEPT
                    !.op = "submit_vote", !.status = 200,
                    !.new_vote_count = votes_storage[loc[t].video_id.n],
                    !.frame = loc[t]])
    /\ accepted' = [accepted EXCEPT ![loc[t].video_id.n] = @ + 1]
    /\ succ_by_ip' = [succ_by_ip EXCEPT ![loc[t].ip_hash] = @ + 1]
    /\ succ_by_addr' = [succ_by_addr EXCEPT ![loc[t].remote_addr] = @ + 1]
    /\ sink' = sink \o SavedVoteRecords(loc[t].video_id, loc[t].ip_hash,
                                        loc[t].social_follows)
    /\ UNCHANGED <<votes_storage, voted_ips>>

(***************************************************************************)
(* get_votes (voting.py:112-121)                                           *)
(***************************************************************************)
\* Line 118: the dict literal holds a reference to votes_storage and the sum taken now.
get_votes_sum(t) ==
    /\ pc[t] = "idle"
    /\ loc' = [loc EXCEPT ![t] = [NoLoc EXCEPT !.total_votes = SumValues(votes_storage)]]
    /\ pc' = [pc EXCEPT ![t] = "L115"]
    /\ UNCHANGED <<votes_storage, voted_ips, resp, accepted, succ_by_ip, succ_by_addr, sink>>

\* Line 115: jsonify serialises the referenced dict when it is called, after the sum.
get_votes_jsonify(t) ==
    /\ pc[t] = "L115"
    /\ Return(t, [NoResp EXCEPT
                    !.op = "get_votes", !.status = 200,
                    !.votes = votes_storage,
                    !.total_votes = loc[t].total_votes])
    /\ UNCHANGED <<votes_storage, voted_ips, accepted, succ_by_ip, succ_by_addr, sink>>

(***************************************************************************)
(* check_voted (voting.py:125-138)                                         *)
(***************************************************************************)
\* The lookup also recording the caller as a voter.
check_voted_recording(t, remote_addr, xff) ==
    /\ pc[t] = "idle"
    /\ Return(t, [NoResp EXCEPT
                    !.op = "check_voted", !.status = 200,
                    !.has_voted = hash_ip(get_client_ip(remote_addr, xff)) \in voted_ips,
                    !.frame = [NoLoc EXCEPT
                        !.remote_addr = remote_addr, !.xff = xff,
                        !.ip_hash = hash_ip(get_client_ip(remote_addr, xff))]])
    /\ voted_ips' = voted_ips \cup {hash_ip(get_client_ip(remote_addr, xff))}
    /\ UNCHANGED <<votes_storage, accepted, succ_by_ip, succ_by_addr, sink>>

check_voted(t, remote_addr, xff) ==
    /\ pc[t] = "idle"
    /\ Return(t, [NoResp EXCEPT
                    !.op = "check_voted", !.status = 200,
                    !.has_voted = IpHasVoted(hash_ip(get_client_ip(remote_addr, xff)),
                                             voted_ips),
                    !.frame = [NoLoc EXCEPT
                        !.remote_addr = remote_addr, !.xff = xff,
                        !.ip_hash = hash_ip(get_client_ip(remote_addr, xff))]])
    /\ UNCHANGED <<votes_storage, voted_ips, accepted, succ_by_ip, succ_by_addr, sink>>

(***************************************************************************)
(* get_analytics (voting.py:190-212)                                       *)
(***************************************************************************)
\* Line 193
get_analytics_sum(t) ==
    /\ pc[t] = "idle"
    /\ loc' = [loc EXCEPT ![t] = [NoLoc EXCEPT !.total_votes = SumValues(votes_storage)]]
    /\ pc' = [pc EXCEPT ![t] = "L197"]
    /\ UNCHANGED <<votes_storage, voted_ips, resp, accepted, succ_by_ip, succ_by_addr, sink>>

\* Lines 197-199: one iteration of the loop over votes_storage.items(); the item's
\* count is read when the iteration reaches it.
get_analytics_loop(t) ==
    /\ pc[t] = "L197"
    /\ LET video_id == Len(loc[t].vote_percentages) + 1
           count == votes_storage[video_id]
       IN  /\ loc' = [loc EXCEPT ![t].vote_percentages =
                            Append(@, Percentage(count, loc[t].total_votes))]
           /\ pc' = [pc EXCEPT ![t] = IF video_id = NumVideos THEN "L201" ELSE "L197"]
    /\ UNCHANGED <<votes_storage, voted_ips, resp, accepted, succ_by_ip, succ_by_addr, sink>>

\* Lines 201-210: the response dict is built (len(voted_ips) is read now) and returned.
\* vote_counts, the serialised votes_storage, is left out of the modelled response.
get_analytics_return(t) ==
    /\ pc[t] = "L201"
    /\ Return(t, [NoResp EXCEPT
                    !.op = "get_analytics", !.status = 200,
                    !.total_votes = loc[t].total_votes,
                    !.vote_percentages = loc[t].vote_percentages,
                    !.total_participants = Cardinality(voted_ips),
                    !.videos_count = Cardinality(DOMAIN votes_storage)])
    /\ UNCHANGED <<votes_storage, voted_ips, accepted, succ_by_ip, succ_by_addr, sink>>

(***************************************************************************)
(* The request threads.  Spec runs the pool with the bodies a well-behaved  *)
(* and a careless client send: all flags true or no flags at all.          *)
(***************************************************************************)
FollowInputs == {AllTrue, NoFollows}

Next ==
    \/ \E t \in Threads, v \in VideoIdInputs, sf \in FollowInputs, c \in ClientInputs :
            submit_vote_validate(t, v, sf, c[1], c[2])
    \/ \E t \in Threads : submit_vote_check(t)
    \/ \E t \in Threads : submit_vote_load(t)
    \/ \E t \in Threads : submit_vote_store(t)
    \/ \E t \in Threads : submit_vote_add(t)
    \/ \E t \in Threads : submit_vote_return(t)
    \/ \E t \in Threads : get_votes_sum(t)
    \/ \E t \in Threads : get_votes_jsonify(t)
    \/ \E t \in Threads, c \in ClientInputs : check_voted(t, c[1], c[2])
    \/ \E t \in Threads : get_analytics_sum(t)
    \/ \E t \in Threads : get_analytics_loop(t)
    \/ \E t \in Threads : get_analytics_return(t)
    \/ \E t \in Threads : send_response(t)

Spec == Init /\ [][Next]_vars

(***************************************************************************)
(* SpecBodies serves one request at a time (thread 1 only) and draws the   *)
(* request bodies from every combination of the three flags, a             *)
(* social_follows that is no object, and a video_id of 0.                  *)
(***************************************************************************)
BodyVideoIds == VideoIdInputs \cup {JInt(0)}

BodyFollows == AllFollows \cup {NotAnObject}

NextBodies ==
    \/ \E v \in BodyVideoIds, sf \in BodyFollows, c \in ClientInputs :
            submit_vote_validate(1, v, sf, c[1], c[2])
    \/ submit_vote_check(1)
    \/ submit_vote_load(1)
    \/ submit_vote_store(1)
    \/ submit_vote_add(1)
    \/ submit_vote_return(1)
    \/ get_votes_sum(1)
    \/ get_votes_jsonify(1)
    \/ \E c \in ClientInputs : check_voted(1, c[1], c[2])
    \/ get_analytics_sum(1)
    \/ get_analytics_loop(1)
    \/ get_analytics_return(1)
    \/ send_response(1)

SpecBodies == Init /\ [][NextBodies]_vars

(***************************************************************************)
(* Properties.                                                             *)
(***************************************************************************)
\* Positions inside submit_vote between its first and its last access to the store.
VotePcs == {"L88", "L92", "L95", "L96", "L101"}

\* No submit_vote call is in progress.
Quiescent == \A t \in Threads : pc[t] \notin VotePcs

\* Thread t has just returned a response of handler op.
Returned(t, op) == pc[t] = "ret" /\ resp[t].op = op

Success(t) == Returned(t, "submit_vote") /\ resp[t].status = 200

\* A video_id that is a non-zero integer and no key of votes_storage.
UnknownInt(v) == v.tag = "int" /\ v.n # 0 /\ v.n \notin VideoKeys

\* C1: every client identity obtains at most one successful vote, under any
\* interleaving of submit_vote calls.
C1_OneVotePerIdentity == \A h \in DOMAIN succ_by_ip : succ_by_ip[h] <= 1

\* C2: whenever no submit_vote call is in progress, the sum of all counters equals
\* the size of voted_ips.
C2_SumEqualsVoters == Quiescent => SumValues(votes_storage) = Cardinality(voted_ips)

\* C3: whenever no submit_vote call is in progress, each counter equals the number
\* of calls that returned success for that video (no increment is lost).
C3_CounterEqualsAccepted ==
    Quiescent => \A k \in VideoKeys : votes_storage[k] = accepted[k]

\* C4: every get_analytics response reports total_votes equal to total_participants.
C4_AnalyticsNotTorn ==
    \A t \in Threads : Returned(t, "get_analytics") =>
        resp[t].total_votes = resp[t].total_participants

\* C5: a successful submit_vote has added its identity to voted_ips, has raised its
\* video's counter by exactly one, and returns as new_vote_count the value it loaded
\* plus one.
C5_SuccessCountsOnce ==
    \A t \in Threads : Success(t) =>
        /\ resp[t].frame.ip_hash \in voted_ips
        /\ resp[t].frame.stored_over = resp[t].frame.count
        /\ resp[t].new_vote_count = resp[t].frame.count + 1

ExpectedPlatform(sf) ==
    IF sf["instagram"] # "true" THEN "instagram"
    ELSE IF sf["linkedin"] # "true" THEN "linkedin"
    ELSE "twitter"

\* C7 as stated: every submit_vote call in which a required flag is false or absent
\* fails with 'Must follow on' the first unmet platform.
C7_UnmetFlagAlwaysReported ==
    \A t \in Threads :
        /\ Returned(t, "submit_vote")
        /\ IsObject(resp[t].frame.social_follows)
        /\ \E p \in Platforms : resp[t].frame.social_follows[p] # "true"
        => /\ resp[t].status = 400
           /\ resp[t].error = ErrMustFollow(ExpectedPlatform(resp[t].frame.social_follows))

\* C7 amended: a submit_vote call with a truthy video_id and a social_follows object
\* in which a required flag is false or absent is answered, in one step that leaves
\* votes_storage and voted_ips unchanged, with 400 'Must follow on' the first unmet
\* platform in the order instagram, linkedin, twitter.
C7_UnmetFlagReported ==
    [][\A t \in Threads :
        /\ pc'[t] = "ret" /\ pc[t] # "ret"
        /\ resp'[t].op = "submit_vote"
        /\ Truthy(resp'[t].frame.video_id)
        /\ IsObject(resp'[t].frame.social_follows)
        /\ \E p \in Platforms : resp'[t].frame.social_follows[p] # "true"
        => /\ pc[t] = "idle"
           /\ resp'[t].status = 400
           /\ resp'[t].error = ErrMustFollow(ExpectedPlatform(resp'[t].frame.social_follows))
           /\ votes_storage' = votes_storage
           /\ voted_ips' = voted_ips]_vars

C7_Witness ==
    \E t \in Threads :
        /\ Returned(t, "submit_vote")
        /\ Truthy(resp[t].frame.video_id)
        /\ resp[t].frame.social_follows =
                [p \in Platforms |-> IF p = "instagram" THEN "true"
                                     ELSE IF p = "linkedin" THEN "absent" ELSE "false"]
        /\ resp[t].error = ErrMustFollow("linkedin")
        /\ SumValues(votes_storage) > 0

\* C8: a submit_vote call (all flags true, registered video) that starts when its
\* identity is already in voted_ips never gets past the check of line 88, writes
\* nothing and is answered 400 'You have already voted'.
C8_VotedIdentityRejected ==
    \A t \in Threads :
        /\ loc[t].voted_at_entry => pc[t] = "L88"
        /\ Returned(t, "submit_vote") /\ resp[t].frame.voted_at_entry =>
            /\ resp[t].status = 400
            /\ resp[t].error = ErrAlreadyVoted
            /\ resp[t].frame.writes = 0

C8_Witness ==
    \E t \in Threads :
        /\ Returned(t, "submit_vote")
        /\ resp[t].frame.voted_at_entry
        /\ Registered(resp[t].frame.video_id)
        /\ votes_storage[resp[t].frame.video_id.n] = 0
        /\ resp[t].error = ErrAlreadyVoted

\* C9: every percentage of every get_analytics response lies in [0,100] (0..1000
\* tenths), and all are 0 when total_votes is 0.
C9_PercentagesInRange ==
    \A t \in Threads : Returned(t, "get_analytics") =>
        \A i \in 1..Len(resp[t].vote_percentages) :
            /\ resp[t].vote_percentages[i] \in 0..1000
            /\ resp[t].total_votes = 0 => resp[t].vote_percentages[i] = 0

\* C10: in every get_votes response total_votes equals the sum of the counts
\* returned in the same response.
C10_VotesSnapshot ==
    \A t \in Threads : Returned(t, "get_votes") =>
        resp[t].total_votes = SumValues(resp[t].votes)

\* C11: across every step no counter of votes_storage decreases and no identity
\* leaves voted_ips.
C11_StateOnlyGrows ==
    [][/\ \A k \in VideoKeys : votes_storage'[k] >= votes_storage[k]
       /\ voted_ips \subseteq voted_ips']_vars

\* Thread t takes the step on which handler op returns.
Returns(t, op) == pc[t] # "ret" /\ pc'[t] = "ret" /\ resp'[t].op = op

\* C12: a check_voted call changes neither votes_storage nor voted_ips, and its
\* result is the membership of the caller's identity in the voted_ips it leaves
\* behind, so that a second call with no vote in between returns the same; two
\* answers for one identity differ only if the identity has been added meanwhile.
C12_CheckVotedPure ==
    /\ [][\A t \in Threads : Returns(t, "check_voted") =>
            /\ votes_storage' = votes_storage
            /\ voted_ips' = voted_ips
            /\ resp'[t].has_voted = (resp'[t].frame.ip_hash \in voted_ips')]_vars
    /\ [](\A t, u \in Threads :
            /\ Returned(t, "check_voted") /\ Returned(u, "check_voted")
            /\ resp[t].frame.ip_hash = resp[u].frame.ip_hash
            /\ resp[t].has_voted # resp[u].has_voted
            => resp[t].frame.ip_hash \in voted_ips)

C12_Witness ==
    \E t, u \in Threads :
        /\ t # u
        /\ Returned(t, "check_voted") /\ Returned(u, "check_voted")
        /\ resp[t].frame.ip_hash = resp[u].frame.ip_hash
        /\ resp[t].has_voted /\ resp[u].has_voted

C14_StatusCodes ==
    \A t \in Threads : Returned(t, "submit_vote") =>
        LET f == resp[t].frame
            unmet == \E p \in Platforms : f.social_follows[p] # "true"
        IN  /\ resp[t].status \in {200, 400, 500}
            /\ resp[t].status = 500 =>
                    f.video_id.tag = "list" \/ ~IsObject(f.social_follows)
            /\ IsObject(f.social_follows)
                    /\ (UnknownInt(f.video_id) \/ unmet)
                    => resp[t].status = 400
            /\ f.voted_at_entry => resp[t].status = 400
            /\ resp[t].status = 200 <=> f.writes = 2
            /\ resp[t].status # 200 => f.writes = 0
            /\ resp[t].status = 200 => f.ip_hash \in voted_ips

C14_Witness ==
    \E t, u \in Threads :
        /\ Success(t)
        /\ Returned(u, "submit_vote")
        /\ resp[u].status = 400
        /\ resp[u].error = ErrAlreadyVoted
        /\ resp[u].frame.ip_hash = resp[t].frame.ip_hash

\* C15: the store starts with the keys 1..6 all at zero and no voter; in every
\* reachable state the keys are still exactly 1..6, no counter is negative, and
\* every get_analytics response reports videos_count = 6.
C15_FixedItems ==
    /\ votes_storage = [k \in 1..6 |-> 0]
    /\ voted_ips = {}
    /\ [](/\ DOMAIN votes_storage = 1..6
          /\ \A k \in 1..6 : votes_storage[k] >= 0
          /\ \A t \in Threads :
                Returned(t, "get_analytics") => resp[t].videos_count = 6)

C15_Witness ==
    \E t \in Threads :
        /\ Returned(t, "get_analytics")
        /\ resp[t].videos_count = 6
        /\ votes_storage[1] >= 1 /\ votes_storage[2] >= 1

\* C16: submit_vote reports the first reason that applies, in the order: video_id
\* missing or falsy, unmet platform flag (instagram, linkedin, twitter), identity
\* already voted, unregistered id.
C16_RejectionOrder ==
    \A t \in Threads : Returned(t, "submit_vote") =>
        LET f == resp[t].frame
            v == f.video_id
            missing == v.tag = "null" \/ (v.tag = "int" /\ v.n = 0)
            object == IsObject(f.social_follows)
            unmet == \E p \in Platforms : f.social_follows[p] # "true"
        IN  /\ missing => resp[t].error = ErrVideoRequired
            /\ ~missing /\ object /\ unmet =>
                    resp[t].error = ErrMustFollow(ExpectedPlatform(f.social_follows))
            /\ ~missing /\ object /\ ~unmet /\ f.voted_at_entry =>
                    resp[t].error = ErrAlreadyVoted
            /\ ~missing /\ object /\ ~unmet /\ ~f.voted_at_entry /\ UnknownInt(v) =>
                    resp[t].error = ErrInvalidVideo

C16_Witness ==
    \E t \in Threads :
        /\ Returned(t, "submit_vote")
        /\ resp[t].frame.voted_at_entry
        /\ UnknownInt(resp[t].frame.video_id)
        /\ resp[t].error = ErrAlreadyVoted

\* C17: for every REMOTE_ADDR, whatever X-Forwarded-For its requests carry, at most
\* one submit_vote request succeeds.
C17_OneVotePerAddress == \A a \in RemoteAddrs : succ_by_addr[a] <= 1

\* C18: whenever no submit_vote call is in progress, an identity is in voted_ips
\* exactly when a submit_vote from it has returned success, and a check_voted call
\* made then answers has_voted accordingly; a rejected vote adds no identity.
C18_HasVotedIffSucceeded ==
    /\ [](Quiescent => \A h \in DOMAIN succ_by_ip :
                            h \in voted_ips <=> succ_by_ip[h] >= 1)
    /\ [][\A t \in Threads : Quiescent /\ Returns(t, "check_voted") =>
            resp'[t].has_voted = (succ_by_ip[resp'[t].frame.ip_hash] >= 1)]_vars
    /\ [][\A t \in Threads :
            Returns(t, "submit_vote") /\ resp'[t].status # 200 =>
                voted_ips' = voted_ips /\ resp'[t].frame.writes = 0]_vars

C18_Witness ==
    \E t, u \in Threads :
        /\ Quiescent
        /\ Returned(t, "check_voted") /\ resp[t].has_voted
        /\ succ_by_ip[resp[t].frame.ip_hash] = 1
        /\ Returned(u, "check_voted") /\ ~resp[u].has_voted
        /\ succ_by_ip[resp[u].frame.ip_hash] = 0
        /\ resp[u].frame.ip_hash \notin voted_ips

====
